---- MODULE Spec2Model ----
(***************************************************************************)
(* Model of "Pacifica v2.0 Notifications.ipynb": the notebook's cells run   *)
(* in order on the kernel's main thread, the CherryPy server thread         *)
(* receives events pushed by the notifications service, and the single     *)
(* Celery worker thread (solo pool) routes each received event through     *)
(* ROUTER and runs SimpleEventHandler.handle on a match.                   *)
(***************************************************************************)
EXTENDS Integers, Sequences, FiniteSets, TLC

\* ------------------------------------------------------------------ bounds

\* Uploads made by other clients of the archive while the notebook runs.
MaxExternalUploads == 1
\* Files in the notebook's test_data directory.
MaxFiles == 2

\* The archive never holds more than one handler upload per client upload
\* when the handler tags its output; the guard of HandleUpload caps it so
\* that a handler that retriggers itself still has finitely many states.
MaxArchive == 2 * (MaxExternalUploads + 1)

\* ------------------------------------------------------------ pure helpers

Range(s) == {s[i] : i \in 1..Len(s)}

RECURSIVE Reverse(_)
Reverse(s) == IF s = <<>> THEN <<>> ELSE Append(Reverse(Tail(s)), Head(s))

\* str.upper() on one character: letters are raised, "ß" becomes "SS",
\* anything else is kept.
UpperChar(c) ==
    CASE c = "h" -> <<"H">>
      [] c = "e" -> <<"E">>
      [] c = "l" -> <<"L">>
      [] c = "o" -> <<"O">>
      [] c = "ß" -> <<"S", "S">>
      [] OTHER   -> <<c>>

\* file_fd.read().upper()
RECURSIVE Upper(_)
Upper(s) == IF s = <<>> THEN <<>> ELSE UpperChar(Head(s)) \o Upper(Tail(s))

\* --------------------------------------------------------------- inputs

Hello == <<"h", "e", "l", "l", "o">>
HELLO == <<"H", "E", "L", "L", "O">>

\* File names and contents a test_data directory may hold.
Names == {"a", "b"}
Contents == {Hello, <<"ß", "1">>}
FileRecs == [name : Names, content : Contents]

RECURSIVE SeqsUpTo(_, _)
SeqsUpTo(S, n) ==
    IF n = 0 THEN {<<>>}
    ELSE LET shorter == SeqsUpTo(S, n - 1)
         IN  shorter \cup {Append(s, x) : s \in {q \in shorter : Len(q) = n - 1}, x \in S}

FileLists == SeqsUpTo(FileRecs, MaxFiles)

\* The transaction a client uploads under (submitter, instrument, project).
NotebookTransaction == [submitter |-> "10", instrument |-> "54", project |-> "1234a"]
ExternalTransaction == [submitter |-> "11", instrument |-> "74", project |-> "1235"]

\* The trigger record the notebook appends to uploader.json.
TriggerKV == <<"uppercase_text", "False">>
\* The record the handler tags its own upload with.
SuppressKV == <<"uppercase_text", "True">>

\* Key-value sets another client may attach to an upload; its upload carries
\* metadata only.
ExternalKVSets == SUBSET {TriggerKV, SuppressKV}
ExternalFiles == <<>>

\* ------------------------------------------------------- route predicate

\* RouteText with the test of "value" left out.
RouteTextAnyValue ==
    [path   |-> <<"data", "*">>,
     conj   |-> << <<"destinationTable", "TransactionKeyValue">>,
                   <<"key", "uppercase_text">> >>,
     closed |-> TRUE]

\* The text handed to Path.parse_str: the path to the filtered elements, the
\* conjuncts of the filter, and whether the filter expression is closed.
RouteText ==
    [path   |-> <<"data", "*">>,
     conj   |-> << <<"destinationTable", "TransactionKeyValue">>,
                   <<"key", "uppercase_text">>,
                   <<"value", "False">> >>,
     closed |-> TRUE]

\* The same text with the closing ")]" missing: a malformed predicate.
MalformedRouteText == [RouteText EXCEPT !.closed = FALSE]

RouteTexts == {RouteText, MalformedRouteText}

\* A parser that defers its errors to the first match.
ParseNeverFails(text) == FALSE

\* Path.parse_str: raises on a malformed text, else yields the parsed path.
ParseFails(text) == ~text.closed
Parse(text) == [path |-> text.path, filter |-> Range(text.conj)]

\* The "data" array of the event of a transaction: one record per key-value,
\* one per file and one for the transaction itself.
Data(tx) ==
    {[destinationTable |-> "TransactionKeyValue", key |-> kv[1], value |-> kv[2]] :
        kv \in tx.kvs}
    \cup {[destinationTable |-> "Files", key |-> f.name, value |-> "none"] :
        f \in Range(tx.files)}
    \cup {[destinationTable |-> "Transactions", key |-> "none", value |-> "none"]}

\* A match that wants every element of data to satisfy the filter.
MatchEveryRecord(path, tx) ==
    \A r \in Data(tx) : \A c \in path.filter : r[c[1]] = c[2]

\* path.match(event): some element of data satisfies every conjunct.
Match(path, tx) ==
    \E r \in Data(tx) : \A c \in path.filter : r[c[1]] = c[2]

\* -------------------------------------------------------------- the state

VARIABLES
    cell,           \* the notebook cell to run next
    aborted,        \* a cell raised: the run stopped at `cell`
    resp,           \* the last checked response: [cell, status]
    routeText,      \* the text of the route predicate of the Link cell
    test_data,      \* the files of the directory the notebook uploads
    subscribed,     \* the event match is registered (subscription_uuid)
    subError,       \* the subscription's "error" field is not None
    ROUTER,         \* the routes: a sequence of [path, handler]
    serverStarts,   \* times cherrypy.engine.start() ran
    server,         \* "down" | "up"
    workerStarts,   \* times celery_worker.start() ran
    celery_worker,  \* "notstarted" | "running" | "exited"
    archive,        \* the transactions uploaded, in order
    jobs,           \* the ingest jobs of the handler's uploads: [upload, state]
    externals,      \* uploads other clients made
    notifyQ,        \* transactions whose event is still to be pushed, oldest first
    tasks,          \* ReceiveTaskModel rows, in order of receipt
    queue,          \* the broker's queue of task ids
    running,        \* the tasks the worker is processing
    frames,         \* the frame of handle of each running task
    tmpdirs,        \* the temporary directories that exist: <<task, "dl"|"ul">>
    checkTask       \* the task id the Dispatcher Checks cell read (0: none)

vars == <<cell, aborted, resp, routeText, test_data, subscribed, subError, ROUTER,
          serverStarts, server, workerStarts, celery_worker, archive, jobs,
          externals, notifyQ, tasks, queue, running, frames, tmpdirs, checkTask>>

nbVars == <<cell, aborted, resp, routeText, test_data, subscribed, ROUTER, serverStarts,
            workerStarts, checkTask>>

sysVars == <<subError, archive, jobs, externals, notifyQ, tasks, queue, running, frames,
             tmpdirs>>

StatusCodes == {200, 500}

\* The state before the first cell runs, whatever the inputs.
Fresh ==
    /\ cell = "uniqueid"
    /\ aborted = FALSE
    /\ resp = [cell |-> "none", status |-> 200]
    /\ subscribed = FALSE
    /\ subError = FALSE
    /\ ROUTER = <<>>
    /\ serverStarts = 0
    /\ server = "down"
    /\ workerStarts = 0
    /\ celery_worker = "notstarted"
    /\ archive = <<>>
    /\ jobs = <<>>
    /\ externals = 0
    /\ notifyQ = <<>>
    /\ tasks = <<>>
    /\ queue = <<>>
    /\ running = {}
    /\ frames = <<>>
    /\ tmpdirs = {}
    /\ checkTask = 0

\* The notebook alone: any test_data directory, either predicate text.
Init ==
    /\ routeText \in RouteTexts
    /\ test_data \in FileLists
    /\ Fresh

\* The notebook as written, run beside other clients of the archive: the
\* route text of the Link cell and one file holding "hello".
InitOpen ==
    /\ routeText = RouteText
    /\ test_data = <<[name |-> "a", content |-> Hello]>>
    /\ Fresh

\* ------------------------------------------------------ the notebook cells

\* A cell without its assertion.
AssertIgnored(status) == TRUE

\* `assert resp.status_code == 200`
AssertPasses(status) == status = 200

\* A cell that raised stops the run: no later cell executes.
Abort == aborted' = TRUE /\ cell' = cell

\* A run in which the upload cell may be run in place of the server start.
AtCellUploadEarly(c) ==
    ~aborted /\ (cell = c \/ (c = "upload" /\ cell = "startServer"))

\* A cell of the run: `c` runs only when it is next and the run has not stopped.
AtCell(c) == cell = c /\ ~aborted

\* An upload to the archive: the ingest stores the transaction and, when an
\* event match is registered, the notifications service gets its event.
Ingest(tx) ==
    /\ archive' = Append(archive, tx)
    /\ notifyQ' = IF subscribed THEN Append(notifyQ, Len(archive) + 1) ELSE notifyQ

\* "The UniqueID Interface": two requests, each asserted.
UniqueIdCell ==
    /\ AtCell("uniqueid")
    /\ \E s1 \in StatusCodes, s2 \in StatusCodes :
        LET seen == IF AssertPasses(s1) THEN s2 ELSE s1 IN
        /\ resp' = [cell |-> "uniqueid", status |-> seen]
        /\ IF AssertPasses(s1) /\ AssertPasses(s2)
           THEN cell' = "subscribe" /\ aborted' = aborted
           ELSE Abort
    /\ UNCHANGED <<routeText, test_data, subscribed, ROUTER, serverStarts, server, workerStarts,
                   celery_worker, checkTask>>
    /\ UNCHANGED sysVars

\* "Get a Subscription": the service registers the event match, the cell
\* asserts the status and keeps the uuid.
SubscribeCell ==
    /\ AtCell("subscribe")
    /\ \E s \in StatusCodes :
        /\ resp' = [cell |-> "subscribe", status |-> s]
        /\ subscribed' = (s = 200)
        /\ IF AssertPasses(s)
           THEN cell' = "createdb" /\ aborted' = aborted
           ELSE Abort
    /\ UNCHANGED <<routeText, test_data, ROUTER, serverStarts, server, workerStarts,
                   celery_worker, checkTask>>
    /\ UNCHANGED sysVars

\* "Setup Constants and Create Database": ROUTER = Router().
CreateDbCell ==
    /\ AtCell("createdb")
    /\ ROUTER' = <<>>
    /\ cell' = "link"
    /\ UNCHANGED <<aborted, resp, routeText, test_data, subscribed, serverStarts, server,
                   workerStarts, celery_worker, checkTask>>
    /\ UNCHANGED sysVars

\* ROUTER.add_route(path, handler): the route is appended.
AddRoute(router, path) ==
    Append(router, [path |-> path, handler |-> "SimpleEventHandler"])

\* "Link Event Handler": the argument Path.parse_str(...) is evaluated before
\* add_route is called; when it raises the cell stops and no route is added.
LinkCell ==
    /\ AtCell("link")
    /\ IF ParseFails(routeText)
       THEN Abort /\ ROUTER' = ROUTER
       ELSE /\ ROUTER' = AddRoute(ROUTER, Parse(routeText))
            /\ cell' = "startServer"
            /\ aborted' = aborted
    /\ UNCHANGED <<resp, routeText, test_data, subscribed, serverStarts, server, workerStarts,
                   celery_worker, checkTask>>
    /\ UNCHANGED sysVars

\* "Start CherryPy Server": cherrypy.engine.start() returns with the server
\* thread listening.
StartServerCell ==
    /\ AtCell("startServer")
    /\ serverStarts' = serverStarts + 1
    /\ server' = "up"
    /\ cell' = "startWorker"
    /\ UNCHANGED <<aborted, resp, routeText, test_data, subscribed, ROUTER, workerStarts,
                   celery_worker, checkTask>>
    /\ UNCHANGED sysVars

\* "Start the Celery Application": one thread running run_celery_worker.
StartWorkerCell ==
    /\ AtCell("startWorker")
    /\ workerStarts' = workerStarts + 1
    /\ celery_worker' = "running"
    /\ cell' = "configure"
    /\ UNCHANGED <<aborted, resp, routeText, test_data, subscribed, ROUTER, serverStarts,
                   server, checkTask>>
    /\ UNCHANGED sysVars

\* "Trigger Workflow with Upload": uploader-notify.json gets the trigger
\* record and the uploader is configured.
ConfigureCell ==
    /\ AtCell("configure")
    /\ cell' = "upload"
    /\ UNCHANGED <<aborted, resp, routeText, test_data, subscribed, ROUTER, serverStarts,
                   server, workerStarts, celery_worker, checkTask>>
    /\ UNCHANGED sysVars

\* The transaction `cli upload test_data` makes.
NotebookUpload(files) ==
    [by |-> "notebook", trans |-> NotebookTransaction, kvs |-> {TriggerKV},
     files |-> files, task |-> 0]

\* "Actually Upload Data".
UploadCell ==
    /\ AtCell("upload")
    /\ Ingest(NotebookUpload(test_data))
    /\ cell' = "verify"
    /\ UNCHANGED <<aborted, resp, routeText, test_data, subscribed, ROUTER, serverStarts,
                   server, workerStarts, celery_worker, checkTask>>
    /\ UNCHANGED <<subError, jobs, externals, tasks, queue, running, frames, tmpdirs>>

\* "Verification": the subscription is read back; status and error are asserted.
VerifyCell ==
    /\ AtCell("verify")
    /\ \E s \in StatusCodes :
        /\ resp' = [cell |-> "verify", status |-> s]
        /\ IF AssertPasses(s) /\ ~subError
           THEN cell' = "check" /\ aborted' = aborted
           ELSE Abort
    /\ UNCHANGED <<routeText, test_data, subscribed, ROUTER, serverStarts, server, workerStarts,
                   celery_worker, checkTask>>
    /\ UNCHANGED sysVars

\* GET / of the dispatcher: the tasks, the most recent first.
TaskList == Reverse([i \in 1..Len(tasks) |-> i])

\* "Dispatcher Checks", first request: the list is asserted non-empty and
\* entry [1] is taken; a list of one entry raises IndexError.
CheckListCell ==
    /\ AtCell("check")
    /\ \E s \in StatusCodes :
        /\ resp' = [cell |-> "check", status |-> s]
        /\ IF AssertPasses(s) /\ Len(TaskList) >= 2
           THEN /\ checkTask' = TaskList[2]
                /\ cell' = "checkStatus"
                /\ aborted' = aborted
           ELSE Abort /\ checkTask' = checkTask
    /\ UNCHANGED <<routeText, test_data, subscribed, ROUTER, serverStarts, server, workerStarts,
                   celery_worker>>
    /\ UNCHANGED sysVars

\* "Dispatcher Checks", second request: GET /get/<taskID>, taskStatus asserted.
CheckStatusCell ==
    /\ AtCell("checkStatus")
    /\ \E s \in StatusCodes :
        /\ resp' = [cell |-> "checkStatus", status |-> s]
        /\ IF AssertPasses(s) /\ tasks[checkTask].status = "200 OK"
           THEN cell' = "done" /\ aborted' = aborted
           ELSE Abort
    /\ UNCHANGED <<routeText, test_data, subscribed, ROUTER, serverStarts, server, workerStarts,
                   celery_worker, checkTask>>
    /\ UNCHANGED sysVars

Notebook ==
    \/ UniqueIdCell
    \/ SubscribeCell
    \/ CreateDbCell
    \/ LinkCell
    \/ StartServerCell
    \/ StartWorkerCell
    \/ ConfigureCell
    \/ UploadCell
    \/ VerifyCell
    \/ CheckListCell
    \/ CheckStatusCell

\* ------------------------------------------------- uploads by other clients

ExternalUpload ==
    /\ subscribed
    /\ externals < MaxExternalUploads
    /\ externals' = externals + 1
    /\ \E kvs \in ExternalKVSets :
        Ingest([by |-> "external", trans |-> ExternalTransaction, kvs |-> kvs,
                files |-> ExternalFiles, task |-> 0])
    /\ UNCHANGED nbVars
    /\ UNCHANGED <<server, celery_worker, subError, jobs, tasks, queue, running,
                   frames, tmpdirs>>

\* The ingest jobs that are neither done nor failed.
Incomplete == {j \in 1..Len(jobs) : jobs[j].state = "incomplete"}

\* The archive's ingest takes the oldest incomplete job of the handler's
\* uploads: the job ends "OK" and its transaction is stored, or it ends
\* "FAILED" and no transaction exists.
IngestJob ==
    /\ Incomplete # {}
    /\ LET j == CHOOSE i \in Incomplete : \A k \in Incomplete : i <= k
       IN  \/ /\ jobs' = [jobs EXCEPT ![j].state = "OK"]
              /\ Ingest(jobs[j].upload)
           \/ /\ jobs' = [jobs EXCEPT ![j].state = "FAILED"]
              /\ UNCHANGED <<archive, notifyQ>>
    /\ UNCHANGED nbVars
    /\ UNCHANGED <<server, celery_worker, subError, externals, tasks, queue, running,
                   frames, tmpdirs>>

\* ------------------------------------------- the server thread: POST /receive

\* A ReceiveTaskModel row as /receive creates it.  Besides the row's own
\* fields (tx, status) it counts what the worker did for it: the calls of
\* handle, of download and of upload, the step that failed, and the state
\* of the worker at receipt.
NewTask(tx) ==
    [tx |-> tx, status |-> "pending", invokes |-> 0, downloads |-> 0, uploads |-> 0,
     fault |-> "none", workerAt |-> celery_worker]

\* The notifications service pushes its oldest event to target_url and the
\* server accepts it: a row is created and the task is sent to the broker.
Receive ==
    /\ server = "up"
    /\ notifyQ # <<>>
    /\ notifyQ' = Tail(notifyQ)
    /\ tasks' = Append(tasks, NewTask(Head(notifyQ)))
    /\ queue' = Append(queue, Len(tasks) + 1)
    /\ UNCHANGED nbVars
    /\ UNCHANGED <<server, celery_worker, subError, archive, jobs, externals, running,
                   frames, tmpdirs>>

\* The push finds nobody listening: the event is lost and the subscription
\* records the error.
ReceiveRefused ==
    /\ server = "down"
    /\ notifyQ # <<>>
    /\ notifyQ' = Tail(notifyQ)
    /\ subError' = TRUE
    /\ UNCHANGED nbVars
    /\ UNCHANGED <<server, celery_worker, archive, jobs, externals, tasks, queue, running,
                   frames, tmpdirs>>

\* ------------------------------------------------------ the worker thread

\* Router.match: the handlers of the routes whose path matches, in order.
Matches(router, tx) == SelectSeq(router, LAMBDA r : Match(r.path, tx))

\* The frame of handle on entry.
NewFrame == [pc |-> "mkdl", exc |-> FALSE, i |-> 1, dl |-> <<>>, ul |-> {}]

\* A pool that takes the next task without waiting for the one in hand.
WorkerAlwaysFree == TRUE

\* pool_cls='solo': the worker runs a task in its own thread, one at a time.
WorkerFree == running = {}

\* An exception that leaves handle without running the exits of the blocks.
OnRaiseSkipsExits == "end"

\* Where an exception raised inside the two `with` blocks continues: at the
\* exit of the inner block.
OnRaise == "rmul"

\* A failed call that is made again instead of raising.
FailedRetries(f) == f

\* The frame after a call raised: the exception unwinds the blocks.
Failed(f) == [f EXCEPT !.exc = TRUE, !.pc = OnRaise]

\* The status the task runner records when handle returns ("200 OK", the
\* status the Dispatcher Checks cell asserts) or raises ("ERROR" stands for
\* whatever other status it records then).
Outcome(exc) == IF exc THEN "ERROR" ELSE "200 OK"

SetFrame(t, f) == frames' = [frames EXCEPT ![t] = f]
SetTask(t, r) == tasks' = [tasks EXCEPT ![t] = r]

\* A step of handle that raised.
Raise(t, what) ==
    /\ SetFrame(t, Failed(frames[t]))
    /\ SetTask(t, [tasks[t] EXCEPT !.fault = what])

\* The worker takes the next task and routes its event: no route ends the
\* task at once ("NO ROUTE" stands for the status recorded then), a match
\* calls handle of the first matching route.
WorkerTake ==
    /\ celery_worker = "running"
    /\ WorkerFree
    /\ queue # <<>>
    /\ LET t == Head(queue)
           found == Matches(ROUTER, archive[tasks[t].tx])
       IN  /\ queue' = Tail(queue)
           /\ IF found = <<>>
              THEN /\ SetTask(t, [tasks[t] EXCEPT !.status = "NO ROUTE"])
                   /\ UNCHANGED <<running, frames>>
              ELSE /\ SetTask(t, [tasks[t] EXCEPT !.invokes = @ + 1])
                   /\ running' = running \cup {t}
                   /\ frames' = [u \in running \cup {t} |->
                                    IF u = t THEN NewFrame ELSE frames[u]]
    /\ UNCHANGED nbVars
    /\ UNCHANGED <<server, celery_worker, subError, archive, jobs, externals, notifyQ,
                   tmpdirs>>

\* `with tempfile.TemporaryDirectory() as downloader_tempdir_name:`
HandleEnterDownloaderDir(t) ==
    /\ frames[t].pc = "mkdl"
    /\ tmpdirs' = tmpdirs \cup {<<t, "dl">>}
    /\ SetFrame(t, [frames[t] EXCEPT !.pc = "mkul"])
    /\ UNCHANGED <<tasks, jobs>>

\* `with tempfile.TemporaryDirectory() as uploader_tempdir_name:`
HandleEnterUploaderDir(t) ==
    /\ frames[t].pc = "mkul"
    /\ tmpdirs' = tmpdirs \cup {<<t, "ul">>}
    /\ SetFrame(t, [frames[t] EXCEPT !.pc = "download"])
    /\ UNCHANGED <<tasks, jobs>>

\* self.downloader_runner.download(downloader_tempdir_name, file_insts): the
\* event's files arrive in the downloader directory, or the call raises.
HandleDownload(t) ==
    /\ frames[t].pc = "download"
    /\ LET files == archive[tasks[t].tx].files
           counted == [tasks[t] EXCEPT !.downloads = @ + 1]
       IN  \/ /\ SetFrame(t, [frames[t] EXCEPT
                     !.dl = [k \in 1..Len(files) |-> files[k]],
                     !.pc = "files"])
              /\ tasks' = [tasks EXCEPT ![t] = counted]
           \/ /\ SetFrame(t, Failed(frames[t]))
              /\ tasks' = [tasks EXCEPT ![t] = [counted EXCEPT !.fault = "download"]]
    /\ UNCHANGED <<tmpdirs, jobs>>

\* open(os.path.join(uploader_tempdir_name, name), 'w') and write: the file
\* of that name is created or replaced.
WriteFile(ul, name, content) ==
    {r \in ul : r.name # name} \cup {[name |-> name, content |-> content]}

\* One turn of the loop over the downloaded files: the file is opened and
\* read, and its upper-cased text is written under the same name in the
\* uploader directory; the read or the write may raise.
HandleTransform(t) ==
    /\ frames[t].pc = "files"
    /\ frames[t].i <= Len(frames[t].dl)
    /\ LET f == frames[t].dl[frames[t].i]
       IN  \/ /\ SetFrame(t, [frames[t] EXCEPT
                     !.ul = WriteFile(@, f.name, Upper(f.content)),
                     !.i = @ + 1])
              /\ UNCHANGED tasks
           \/ \E what \in {"read", "write"} : Raise(t, what)
    /\ UNCHANGED <<tmpdirs, jobs>>

\* A loop that may be left for the upload before its last file.
HandleLoopEndEarly(t) ==
    /\ frames[t].pc = "files"
    /\ SetFrame(t, [frames[t] EXCEPT !.pc = "upload"])
    /\ UNCHANGED <<tasks, tmpdirs, jobs>>

\* The loop is over: the upload comes next.
HandleLoopEnd(t) ==
    /\ frames[t].pc = "files"
    /\ frames[t].i > Len(frames[t].dl)
    /\ SetFrame(t, [frames[t] EXCEPT !.pc = "upload"])
    /\ UNCHANGED <<tasks, tmpdirs, jobs>>

\* The order in which the uploader lists a directory.
NameOrder == <<"a", "b">>

\* The files of the uploader directory as the bundle carries them.
FilesOf(ul) ==
    LET present == SelectSeq(NameOrder, LAMBDA n : \E r \in ul : r.name = n)
    IN  [k \in 1..Len(present) |-> CHOOSE r \in ul : r.name = present[k]]

\* Key-values that carry the trigger instead of the suppression flag.
HandlerKVsRetrigger(txid) == {TriggerKV, <<"Transactions._id", ToString(txid)>>}

\* transaction_key_values of the upload handle makes.
HandlerKVs(txid) == {SuppressKV, <<"Transactions._id", ToString(txid)>>}

\* An upload that also carries the key-values of the handled event.
HandlerUploadCopiesKVs(t) ==
    [by |-> "handler", trans |-> archive[tasks[t].tx].trans,
     kvs |-> HandlerKVs(tasks[t].tx) \cup archive[tasks[t].tx].kvs,
     files |-> FilesOf(frames[t].ul), task |-> t]

\* An upload without transaction_key_values.
HandlerUploadUntagged(t) ==
    [by |-> "handler", trans |-> archive[tasks[t].tx].trans,
     kvs |-> {}, files |-> FilesOf(frames[t].ul), task |-> t]

\* The transaction handle uploads for task t.
HandlerUpload(t) ==
    [by |-> "handler", trans |-> archive[tasks[t].tx].trans,
     kvs |-> HandlerKVs(tasks[t].tx), files |-> FilesOf(frames[t].ul), task |-> t]

\* (_bundle, _job_id, _state) = self.uploader_runner.upload(...): the bundle
\* is sent and the call returns with the ingest job it started, or the call
\* raises. The three values returned are bound and never read.
HandleUpload(t) ==
    /\ frames[t].pc = "upload"
    /\ Len(archive) + Cardinality(Incomplete) < MaxArchive
    /\ LET counted == [tasks[t] EXCEPT !.uploads = @ + 1]
       IN  \/ /\ jobs' = Append(jobs, [upload |-> HandlerUpload(t),
                                        state |-> "incomplete"])
              /\ SetFrame(t, [frames[t] EXCEPT !.pc = "rmul"])
              /\ tasks' = [tasks EXCEPT ![t] = counted]
           \/ /\ SetFrame(t, Failed(frames[t]))
              /\ tasks' = [tasks EXCEPT ![t] = [counted EXCEPT !.fault = "upload"]]
              /\ UNCHANGED jobs
    /\ UNCHANGED tmpdirs

\* An exit of the inner block that removes the outer block's directory.
HandleExitUploaderDirRemovesOuter(t) ==
    /\ frames[t].pc = "rmul"
    /\ tmpdirs' = tmpdirs \ {<<t, "dl">>}
    /\ SetFrame(t, [frames[t] EXCEPT !.pc = "rmdl"])
    /\ UNCHANGED <<tasks, jobs>>

\* A handle that polls the ingest job of its upload and leaves the inner
\* block only when the job is no longer incomplete.
HandleExitUploaderDirAfterJob(t) ==
    /\ frames[t].pc = "rmul"
    /\ \A j \in Incomplete : jobs[j].upload.task # t
    /\ tmpdirs' = tmpdirs \ {<<t, "ul">>}
    /\ SetFrame(t, [frames[t] EXCEPT !.pc = "rmdl"])
    /\ UNCHANGED <<tasks, jobs>>

\* Exit of the inner `with`: the uploader directory is removed.
HandleExitUploaderDir(t) ==
    /\ frames[t].pc = "rmul"
    /\ tmpdirs' = tmpdirs \ {<<t, "ul">>}
    /\ SetFrame(t, [frames[t] EXCEPT !.pc = "rmdl"])
    /\ UNCHANGED <<tasks, jobs>>

\* Exit of the outer `with`: the downloader directory is removed.
HandleExitDownloaderDir(t) ==
    /\ frames[t].pc = "rmdl"
    /\ tmpdirs' = tmpdirs \ {<<t, "dl">>}
    /\ SetFrame(t, [frames[t] EXCEPT !.pc = "end"])
    /\ UNCHANGED <<tasks, jobs>>

\* handle returns or raises to the task runner, which records the status.
HandleEnd(t) ==
    /\ frames[t].pc = "end"
    /\ SetTask(t, [tasks[t] EXCEPT !.status = Outcome(frames[t].exc)])
    /\ running' = running \ {t}
    /\ frames' = [u \in running \ {t} |-> frames[u]]
    /\ UNCHANGED <<tmpdirs, jobs>>

\* SimpleEventHandler.handle, one step at a time.
Handle ==
    /\ celery_worker = "running"
    /\ \E t \in running :
        \/ HandleEnterDownloaderDir(t) /\ UNCHANGED running
        \/ HandleEnterUploaderDir(t) /\ UNCHANGED running
        \/ HandleDownload(t) /\ UNCHANGED running
        \/ HandleTransform(t) /\ UNCHANGED running
        \/ HandleLoopEnd(t) /\ UNCHANGED running
        \/ HandleUpload(t) /\ UNCHANGED running
        \/ HandleExitUploaderDir(t) /\ UNCHANGED running
        \/ HandleExitDownloaderDir(t) /\ UNCHANGED running
        \/ HandleEnd(t)
    /\ UNCHANGED nbVars
    /\ UNCHANGED <<server, celery_worker, subError, archive, externals, notifyQ, queue>>

\* A supervisor that starts the worker again when it ends.
WorkerExitRestarted ==
    /\ celery_worker = "running"
    /\ WorkerFree
    /\ workerStarts' = workerStarts + 1
    /\ UNCHANGED <<cell, aborted, resp, routeText, test_data, subscribed, ROUTER,
                   serverStarts, checkTask, server, celery_worker>>
    /\ UNCHANGED sysVars

\* celery_workers.start() returns (shutdown or crash between two tasks):
\* run_celery_worker returns the exit code and the thread ends.
WorkerExit ==
    /\ celery_worker = "running"
    /\ WorkerFree
    /\ celery_worker' = "exited"
    /\ UNCHANGED nbVars
    /\ UNCHANGED server
    /\ UNCHANGED sysVars

\* -------------------------------------------------------- specifications

\* The notebook is the only client of the archive.
Next ==
    \/ Notebook
    \/ IngestJob
    \/ Receive
    \/ WorkerTake
    \/ Handle
    \/ WorkerExit

Spec == Init /\ [][Next]_vars

\* Other clients upload too and the worker loop keeps running; as long as
\* the notebook, the archive's ingest, the notifications service or the
\* worker can take a step, one of them eventually does.
NextOpen ==
    \/ Notebook
    \/ ExternalUpload
    \/ IngestJob
    \/ Receive
    \/ ReceiveRefused
    \/ WorkerTake
    \/ Handle

OpenSpec ==
    /\ InitOpen
    /\ [][NextOpen]_vars
    /\ WF_vars(Notebook \/ IngestJob \/ Receive \/ ReceiveRefused \/ WorkerTake \/ Handle)

\* ------------------------------------------------------------ the claims

Tasks == 1..Len(tasks)
Uploads == 1..Len(archive)

\* The key-value set of the event of task t.
KVs(t) == archive[tasks[t].tx].kvs

\* handle was called for task t and has returned or raised.
Handled(t) == tasks[t].invokes > 0 /\ t \notin running

\* The uploads handle made for task t, by ingest job.
UploadsOf(t) == {j \in 1..Len(jobs) : jobs[j].upload.task = t}

\* The transactions the archive stored from the uploads handle made for t.
StoredOf(t) == {i \in Uploads : archive[i].by = "handler" /\ archive[i].task = t}

\* C1 as stated: an event whose key-value set contains uppercase_text = True
\* never has the handler invoked, whatever else the set contains.
C1_NoHandlerOnSuppressed ==
    \A t \in Tasks : SuppressKV \in KVs(t) => tasks[t].invokes = 0

\* C1 amended: an event whose key-value set contains uppercase_text = True and
\* no record uppercase_text = False never has the handler invoked.
C1_NoHandlerOnSuppressedOnly ==
    \A t \in Tasks :
        (SuppressKV \in KVs(t) /\ TriggerKV \notin KVs(t)) => tasks[t].invokes = 0

\* An event carrying only uppercase_text = True was routed and matched no route.
C1_Witness ==
    \E t \in Tasks :
        /\ SuppressKV \in KVs(t)
        /\ TriggerKV \notin KVs(t)
        /\ tasks[t].status = "NO ROUTE"

\* Nothing is pending: no event to push, no task queued, no handler running.
Quiescent == Incomplete = {} /\ notifyQ = <<>> /\ queue = <<>> /\ running = {}

\* The uploads clients made that carry the trigger.
TriggeringUploads ==
    {i \in Uploads : archive[i].by # "handler" /\ TriggerKV \in archive[i].kvs}

C2_Safe ==
    /\ \A t \in Tasks : tasks[t].invokes > 0 => TriggerKV \in KVs(t)
    /\ \A i \in Uploads : archive[i].by = "handler" => SuppressKV \in archive[i].kvs
    /\ \A t \in Tasks : archive[tasks[t].tx].by = "handler" => tasks[t].invokes = 0
    /\ Cardinality({t \in Tasks : tasks[t].invokes > 0}) <= Cardinality(TriggeringUploads)
    /\ \A t \in Tasks : tasks[t].invokes <= 1

\* C2: the handler is only ever invoked for events carrying uppercase_text =
\* False, each of its uploads carries uppercase_text = True and causes no
\* further invocation, so there are at most as many invocations as triggering
\* uploads, and the system comes to rest with no pending event.
C2_NoReprocessingLoop == []C2_Safe /\ <>[]Quiescent

\* The event of a handler upload was routed without invoking the handler and
\* the system is at rest after every client upload was handled.
C2_Witness ==
    /\ Quiescent
    /\ externals = MaxExternalUploads
    /\ Cardinality({t \in Tasks : tasks[t].invokes > 0}) = Cardinality(TriggeringUploads)
    /\ \E t \in Tasks :
        /\ archive[tasks[t].tx].by = "handler"
        /\ tasks[t].status = "NO ROUTE"

\* C3 as stated: one handling of an event carrying uppercase_text = False
\* produces exactly one new upload, and it carries uppercase_text = True.
C3_ExactlyOneUpload ==
    \A t \in Tasks :
        (TriggerKV \in KVs(t) /\ Handled(t)) =>
            /\ Cardinality(UploadsOf(t)) = 1
            /\ \A j \in UploadsOf(t) : SuppressKV \in jobs[j].upload.kvs

\* C3 amended: one handling of an event carrying uppercase_text = False
\* produces at most one new upload, exactly one when handle returns without
\* raising, and every such upload carries uppercase_text = True; the archive
\* stores at most one transaction from it, the one of that upload, and only
\* once its ingest job has ended "OK".
C3_OneUploadOnReturn ==
    \A t \in Tasks :
        (TriggerKV \in KVs(t) /\ tasks[t].invokes > 0) =>
            /\ Cardinality(UploadsOf(t)) <= 1
            /\ \A j \in UploadsOf(t) : SuppressKV \in jobs[j].upload.kvs
            /\ (Handled(t) /\ tasks[t].status = "200 OK") => Cardinality(UploadsOf(t)) = 1
            /\ Cardinality(StoredOf(t)) <= 1
            /\ \A i \in StoredOf(t) : \E j \in UploadsOf(t) :
                   jobs[j].state = "OK" /\ jobs[j].upload = archive[i]

\* handle returned for a triggering event and made its one upload.
C3_Witness ==
    \E t \in Tasks :
        /\ TriggerKV \in KVs(t)
        /\ Handled(t)
        /\ tasks[t].status = "200 OK"
        /\ Cardinality(UploadsOf(t)) = 1

\* C4: the upload of a handled event holds, for every file of the event, a
\* file of that name with the upper-cased contents, and no other file.
C4_EveryFileUppercased ==
    \A i \in Uploads :
        archive[i].by = "handler" =>
            LET src == archive[tasks[archive[i].task].tx].files
                out == archive[i].files
            IN  /\ \A k \in 1..Len(src) : \E j \in 1..Len(out) :
                        /\ out[j].name = src[k].name
                        /\ out[j].content = Upper(src[k].content)
                /\ \A j \in 1..Len(out) : \E k \in 1..Len(src) :
                        /\ out[j].name = src[k].name
                        /\ out[j].content = Upper(src[k].content)

\* C5: once handle has returned or raised, neither of its temporary
\* directories exists, whichever step failed or none.
C5_TempDirsRemoved ==
    \A t \in Tasks :
        t \notin running => (<<t, "dl">> \notin tmpdirs /\ <<t, "ul">> \notin tmpdirs)

\* handle raised after both directories were made and a step failed.
C5_Witness ==
    \E t \in Tasks :
        /\ Handled(t)
        /\ tasks[t].status = "ERROR"
        /\ tasks[t].fault \in {"read", "write", "upload"}
        /\ tmpdirs = {}

\* The transaction of the notebook's own upload.
NotebookUploads == {i \in Uploads : archive[i].by = "notebook"}

\* C6: when the Dispatcher Checks cell reads the task list, the list has at
\* least two entries, entry 1 is the task of the notebook's upload with
\* status "200 OK", entry 0 is the task of the upper-cased upload, and the
\* upper-cased upload of a file "hello" holds "HELLO".
C6_CheckFindsTheHandledTask ==
    AtCell("check") =>
        /\ Len(TaskList) >= 2
        /\ tasks[TaskList[2]].tx \in NotebookUploads
        /\ tasks[TaskList[2]].status = "200 OK"
        /\ archive[tasks[TaskList[1]].tx].by = "handler"
        /\ (test_data = <<[name |-> "a", content |-> Hello]>> =>
                archive[tasks[TaskList[1]].tx].files = <<[name |-> "a", content |-> HELLO]>>)

\* C7: within one invocation the download and the upload are each attempted
\* at most once, and a failed download or upload ends handle with an error
\* that the task runner records.
C7_FailurePropagatesNoRetry ==
    \A t \in Tasks :
        /\ tasks[t].downloads <= 1
        /\ tasks[t].uploads <= 1
        /\ (t \in running /\ tasks[t].fault # "none") => frames[t].exc
        /\ (Handled(t) /\ tasks[t].fault # "none") => tasks[t].status = "ERROR"
        /\ (Handled(t) /\ tasks[t].fault = "download") => tasks[t].uploads = 0

\* A download failed, handle raised and the task runner recorded the error.
C7_Witness ==
    \E t \in Tasks :
        /\ Handled(t)
        /\ tasks[t].fault \in {"download", "upload"}
        /\ tasks[t].status = "ERROR"

\* C8: a predicate that does not parse stops the Link cell before add_route:
\* ROUTER stays empty and no event is ever received or matched.
C8_MalformedRejectedAtRegistration ==
    /\ routeText = MalformedRouteText =>
            /\ ROUTER = <<>>
            /\ tasks = <<>>
            /\ cell \in {"uniqueid", "subscribe", "createdb", "link"}
    /\ \A i \in 1..Len(ROUTER) : ROUTER[i].path = Parse(RouteText)

\* The Link cell stopped on the malformed predicate.
C8_Witness ==
    /\ routeText = MalformedRouteText
    /\ cell = "link"
    /\ aborted

\* What the run owns: the notebook's state, the server's task table and
\* the worker's queue, frames and directories.
runVars == <<nbVars, server, celery_worker, tasks, queue, running, frames, tmpdirs>>

\* C9 as stated: once a check fails nothing of the run goes on, the server and
\* worker threads included.
C9_AbortStopsEverything == [][aborted => UNCHANGED runVars]_vars

\* C9 amended: a failed check stops the run at that cell and no later cell
\* executes (the notebook's own state no longer changes); the run passes
\* the Verification cell only with no subscription error and ends at "done"
\* only with the checked task at "200 OK".
C9_AbortStopsTheCells ==
    /\ [](resp.status # 200 => (aborted /\ cell = resp.cell))
    /\ [](cell \in {"check", "checkStatus", "done"} => ~subError)
    /\ [](cell = "done" => (~aborted /\ tasks[checkTask].status = "200 OK"))
    /\ [][aborted => UNCHANGED nbVars]_vars

\* The run stopped on a failed check while the worker thread is in handle.
C9_Witness ==
    /\ aborted
    /\ resp.status # 200
    /\ server = "up"
    /\ celery_worker = "running"
    /\ \E t \in running : frames[t].pc = "upload"

\* C10: the server and the worker are started at most once; once the worker
\* has ended it stays ended, and a task received after that stays pending
\* with its handler never run.
C10_StartedOnceNeverRestarted ==
    /\ serverStarts <= 1
    /\ workerStarts <= 1
    /\ (server = "up") = (serverStarts = 1)
    /\ (celery_worker # "notstarted") = (workerStarts = 1)
    /\ celery_worker = "exited" => running = {}
    /\ \A t \in Tasks :
        tasks[t].workerAt = "exited" =>
            /\ celery_worker = "exited"
            /\ tasks[t].status = "pending"
            /\ tasks[t].invokes = 0

\* The worker ended and /receive accepted an event afterwards.
C10_Witness ==
    \E t \in Tasks :
        /\ tasks[t].workerAt = "exited"
        /\ tasks[t].status = "pending"
        /\ server = "up"

\* C11: at most one invocation of handle is in progress, and while it is, no
\* event received after the one being handled has been routed or handled:
\* its task stays pending although the server thread has recorded it.
C11_OneHandlerAtATime ==
    /\ Cardinality(running) <= 1
    /\ \A t \in running : \A u \in Tasks :
           u > t => tasks[u].status = "pending" /\ tasks[u].invokes = 0

\* handle is between its upload and its return, and the server thread has
\* already received the event of that very upload and queued its task.
C11_Witness ==
    \E t \in running : \E k \in 1..Len(queue) :
        /\ archive[tasks[queue[k]].tx].by = "handler"
        /\ archive[tasks[queue[k]].tx].task = t
        /\ tasks[queue[k]].status = "pending"

\* The worker has taken task t off the queue and routed its event.
Routed(t) == \A k \in 1..Len(queue) : queue[k] # t

\* The records of the data array of the event of task t that have
\* destinationTable = "TransactionKeyValue", key = "uppercase_text" and
\* value = "False".
TriggerRecords(t) ==
    {r \in Data(archive[tasks[t].tx]) :
        /\ r.destinationTable = "TransactionKeyValue"
        /\ r.key = "uppercase_text"
        /\ r.value = "False"}

C13_ExactlyTwoEvents ==
    (Quiescent /\ Len(tasks) >= 1 /\ tasks[1].status # "pending")
        => Len(tasks) = 2

\* C13 amended: the triggering upload causes at most two events, the event
\* of the upload itself, which invokes the handler, and then the event of the
\* handler's upload, which is recorded as a task and invokes no handler; and
\* once handle has returned without raising and nothing is pending, exactly
\* these two tasks are recorded if the ingest job of the handler's upload
\* ended "OK", and the first alone if it failed.
C13_TwoEventsOnReturn ==
    /\ Len(tasks) <= 2
    /\ \A t \in Tasks :
           IF t = 1
           THEN /\ archive[tasks[t].tx].by = "notebook"
                /\ Routed(t) => tasks[t].invokes = 1
           ELSE /\ archive[tasks[t].tx].by = "handler"
                /\ archive[tasks[t].tx].task = 1
                /\ tasks[t].invokes = 0
    /\ (Quiescent /\ Len(tasks) >= 1 /\ tasks[1].status = "200 OK")
           => IF \E j \in UploadsOf(1) : jobs[j].state = "OK"
              THEN Len(tasks) = 2 /\ tasks[2].status = "NO ROUTE"
              ELSE Len(tasks) = 1

\* Both events were recorded and routed, the first handled with success,
\* the second without a handler, and nothing is pending.
C13_Witness ==
    /\ Quiescent
    /\ Len(tasks) = 2
    /\ tasks[1].status = "200 OK" /\ tasks[1].invokes = 1
    /\ tasks[2].status = "NO ROUTE" /\ tasks[2].invokes = 0

\* C14: once the upload call has returned, handle goes on to leave its
\* blocks and return whatever the state of the ingest job, so its next step
\* can always be taken; and the status recorded for the task tells whether a
\* step of handle raised, not how the job ended.
C14_HandleIgnoresJobState ==
    /\ \A t \in running :
           frames[t].pc \in {"rmul", "rmdl", "end"} => ENABLED Handle
    /\ \A t \in Tasks :
           Handled(t) => (tasks[t].status = "200 OK" <=> tasks[t].fault = "none")
    /\ \A j \in 1..Len(jobs) :
           /\ tasks[jobs[j].upload.task].uploads = 1
           /\ tasks[jobs[j].upload.task].fault = "none"

\* The task of the original event is recorded as successful while the
\* ingest job of the handler's upload is still incomplete.
C14_Witness ==
    \E t \in Tasks : \E j \in UploadsOf(t) :
        /\ Handled(t)
        /\ tasks[t].status = "200 OK"
        /\ jobs[j].state = "incomplete"

\* The names of the files of a sequence of file records.
NamesOf(files) == {files[k].name : k \in 1..Len(files)}

\* C15: handle reaches its upload only with every file of the event
\* downloaded and every one of them read, upper-cased and written, so an
\* upload holds a file for every name of the event; and a handling whose
\* download, read or write raised has attempted no upload and has no ingest
\* job and no transaction.
C15_NoPartialUpload ==
    /\ \A t \in running :
           frames[t].pc = "upload" =>
               /\ ~frames[t].exc
               /\ tasks[t].downloads = 1
               /\ Len(frames[t].dl) = Len(archive[tasks[t].tx].files)
               /\ frames[t].i = Len(frames[t].dl) + 1
               /\ NamesOf(FilesOf(frames[t].ul)) = NamesOf(archive[tasks[t].tx].files)
    /\ \A t \in Tasks :
           tasks[t].fault \in {"download", "read", "write"} =>
               /\ tasks[t].uploads = 0
               /\ UploadsOf(t) = {}
               /\ StoredOf(t) = {}
    /\ \A j \in 1..Len(jobs) :
           NamesOf(jobs[j].upload.files) =
               NamesOf(archive[tasks[jobs[j].upload.task].tx].files)

\* The second file of an event failed to be read or written after the first
\* was written to the uploader directory, and handle is unwinding with no
\* upload attempted.
C15_Witness ==
    \E t \in running :
        /\ frames[t].exc
        /\ tasks[t].fault \in {"read", "write"}
        /\ frames[t].i = 2
        /\ frames[t].ul # {}
        /\ frames[t].pc = "end"
        /\ tasks[t].uploads = 0
        /\ UploadsOf(t) = {}

CarriesOnly(u, txid) ==
    /\ u.trans.submitter = archive[txid].trans.submitter
    /\ u.trans.instrument = archive[txid].trans.instrument
    /\ u.trans.project = archive[txid].trans.project
    /\ u.kvs = {<<"uppercase_text", "True">>, <<"Transactions._id", ToString(txid)>>}
    /\ \A kv \in archive[txid].kvs : kv \in u.kvs => kv = <<"uppercase_text", "True">>

\* C17: every upload handle issues, and every transaction the archive
\* stores from one, has the submitter, instrument and project of the
\* transaction of the handled event and the key-values uppercase_text = True
\* and Transactions._id of that transaction, and no other; no key-value of
\* the event is copied.
C17_UploadCarriesOnlyTheTag ==
    /\ \A j \in 1..Len(jobs) :
           CarriesOnly(jobs[j].upload, tasks[jobs[j].upload.task].tx)
    /\ \A i \in Uploads :
           archive[i].by = "handler" => CarriesOnly(archive[i], tasks[archive[i].task].tx)

\* The archive stored the handler's uploads for two events of different
\* submitters, one of them carrying uppercase_text = True beside the trigger.
C17_Witness ==
    \E i, k \in Uploads :
        /\ archive[i].by = "handler" /\ archive[k].by = "handler"
        /\ archive[i].trans = NotebookTransaction
        /\ archive[k].trans = ExternalTransaction
        /\ archive[tasks[archive[k].task].tx].kvs = {TriggerKV, SuppressKV}

\* The temporary directories of task t that exist.
DirsOf(t) == {d \in {"dl", "ul"} : <<t, d>> \in tmpdirs}

\* Where handle stands fixes which of its directories exist: none before
\* the outer block and after it, the downloader's alone between the two
\* entries and between the two exits, both from the download to the exit of
\* the inner block.
C18_DirsByPosition ==
    /\ \A t \in running :
           DirsOf(t) = CASE frames[t].pc \in {"mkdl", "end"} -> {}
                         [] frames[t].pc \in {"mkul", "rmdl"} -> {"dl"}
                         [] OTHER -> {"dl", "ul"}
    /\ \A t \in Tasks : t \notin running => DirsOf(t) = {}

\* A step of handle for task t that downloads, writes a file or uploads.
UsesDirs(t) ==
    /\ t \in running
    /\ t \in running'
    /\ \/ tasks'[t].downloads # tasks[t].downloads
       \/ tasks'[t].uploads # tasks[t].uploads
       \/ frames'[t].ul # frames[t].ul

\* C18: every download, write and upload of handle is a step taken with
\* both temporary directories in existence before and after it; the
\* uploader directory exists only while the downloader directory does, so
\* it is made last and removed first; and a directory once removed is not
\* made again within the invocation.
C18_DirsOutliveTheirUse ==
    /\ []C18_DirsByPosition
    /\ [][\A t \in Tasks :
            /\ UsesDirs(t) => DirsOf(t) = {"dl", "ul"} /\ DirsOf(t)' = {"dl", "ul"}
            /\ \A d \in {"dl", "ul"} :
                   (<<t, d>> \notin tmpdirs /\ <<t, d>> \in tmpdirs')
                       => (t \in running /\ frames[t].pc \in {"mkdl", "mkul"})
            /\ (<<t, "dl">> \in tmpdirs /\ <<t, "dl">> \notin tmpdirs')
                   => <<t, "ul">> \notin tmpdirs]_vars

\* handle has uploaded from the uploader directory and removed it, and the
\* downloader directory still exists.
C18_Witness ==
    \E t \in running :
        /\ frames[t].pc = "rmdl"
        /\ tasks[t].uploads = 1 /\ ~frames[t].exc
        /\ DirsOf(t) = {"dl"}
====
